---- MODULE Spec2Model ----
(***************************************************************************)
(* Model of src/djikstra.py: the Graph class (an insertion-ordered         *)
(* adjacency dict) and the function dijkstra(graph, source).               *)
(*                                                                         *)
(* A Python dict is modelled as a sequence of <<key, value>> pairs in      *)
(* insertion order, because min(unvisited, key=...) and the iteration      *)
(* over get_neighbors(...).items() both depend on that order.              *)
(* A distance is a record [inf, val]: float("inf") is [inf |-> TRUE],      *)
(* a finite number n is [inf |-> FALSE, val |-> n].                        *)
(***************************************************************************)
EXTENDS Integers, Sequences, FiniteSets, TLC

VARIABLES
    vertices,        \* Graph.vertices: dict vertex -> dict neighbor -> weight
    calls,           \* number of add_vertex/add_edge calls made by the caller
    script,          \* the caller: "api" (free calls), "list" (a loop over an
                     \* edge list), "main" (the __main__ block)
    named,           \* history: vertices named in some add_vertex/add_edge call
    lastWeight,      \* history: {u, v} -> weight of the latest add_edge on the pair
    pc,              \* "caller", "while", "for", "return", "raised"
    graph_ok,        \* isinstance(graph, Graph) of the dijkstra call
    source,          \* the source argument of the dijkstra call
    distances,       \* dijkstra local: vertex -> distance
    predecessors,    \* dijkstra local: vertex -> vertex or None
    unvisited,       \* dijkstra local: list of vertices
    current_vertex,  \* dijkstra local
    nbr_idx,         \* position of the for loop in get_neighbors(current_vertex).items()
    raised,          \* exception raised by dijkstra, or None
    visit_order      \* history: the vertices selected by the while loop, in order

vars == <<vertices, calls, script, named, lastWeight, pc, graph_ok, source,
          distances, predecessors, unvisited, current_vertex, nbr_idx, raised,
          visit_order>>

graphVars == <<vertices, calls, named, lastWeight>>
callVars == <<graph_ok, source, raised>>
loopVars == <<distances, predecessors, unvisited, current_vertex, nbr_idx, visit_order>>

----------------------------------------------------------------------------
(* Bounds *)

\* a caller makes at most MaxCalls add_vertex/add_edge calls before the query
MaxCalls == 3

\* the vertices and the weights a caller passes
ApiVertex == {"A", "B", "C"}
Weights == {0 - 1, 0, 1}

\* the edge lists of a caller that builds the graph in a loop: any sublist of
\* ListEdges, each edge with a weight of ListWeights
ListVertex == {"A", "B", "C", "D"}
ListEdges == <<
    <<"A", "B">>, <<"A", "C">>, <<"A", "D">>,
    <<"B", "C">>, <<"B", "D">>, <<"C", "D">> >>
ListWeights == {0, 1}

None == "None"

----------------------------------------------------------------------------
(* Python dict, insertion ordered *)

DictKeySet(d) == {d[i][1] : i \in 1..Len(d)}

RECURSIVE DictKeys(_)
DictKeys(d) == IF d = <<>> THEN <<>> ELSE <<d[1][1]>> \o DictKeys(Tail(d))

DictHas(d, k) == \E i \in 1..Len(d) : d[i][1] = k

DictIndex(d, k) == CHOOSE i \in 1..Len(d) : d[i][1] = k

DictGet(d, k) == d[DictIndex(d, k)][2]

\* d[k] = x: an existing key keeps its position, a new key is appended
DictSet(d, k, x) ==
    IF DictHas(d, k)
    THEN LET i == DictIndex(d, k)
         IN SubSeq(d, 1, i - 1) \o <<<<k, x>>>> \o SubSeq(d, i + 1, Len(d))
    ELSE Append(d, <<k, x>>)

----------------------------------------------------------------------------
(* float arithmetic on distances *)

Inf == [inf |-> TRUE, val |-> 0]
Num(n) == [inf |-> FALSE, val |-> n]

\* a + w for a distance a and a finite weight w
Plus(a, w) == IF a.inf THEN Inf ELSE Num(a.val + w)

\* a < b
Less(a, b) == IF a.inf THEN FALSE ELSE IF b.inf THEN TRUE ELSE a.val < b.val

\* a <= b
LessEq(a, b) == IF b.inf THEN TRUE ELSE IF a.inf THEN FALSE ELSE a.val <= b.val

----------------------------------------------------------------------------
(* class Graph *)

add_vertex_reset(g, vertex) == DictSet(g, vertex, <<>>)

add_vertex(g, vertex) ==
    IF ~DictHas(g, vertex) THEN DictSet(g, vertex, <<>>) ELSE g

add_edge_directed(g, u, v, weight) ==
    LET g1 == add_vertex(g, u)
        g2 == add_vertex(g1, v)
    IN DictSet(g2, u, DictSet(DictGet(g2, u), v, weight))

add_edge(g, u, v, weight) ==
    LET g1 == add_vertex(g, u)
        g2 == add_vertex(g1, v)
        g3 == DictSet(g2, u, DictSet(DictGet(g2, u), v, weight))
    IN DictSet(g3, v, DictSet(DictGet(g3, v), u, weight))

\* for (u, v, weight) in edges: g.add_edge(u, v, weight), from position i
RECURSIVE add_edges(_, _, _)
add_edges(g, edges, i) ==
    IF i > Len(edges) THEN g
    ELSE add_edges(add_edge(g, edges[i][1], edges[i][2], edges[i][3]), edges, i + 1)

get_neighbors(g, vertex) == IF DictHas(g, vertex) THEN DictGet(g, vertex) ELSE <<>>

----------------------------------------------------------------------------
(* dijkstra: the pieces of the function *)

source_unchecked(g, s) == TRUE

\* line 105: source in graph.vertices
source_in_graph(g, s) == DictHas(g, s)

\* lines 109, 111
initial_distances(g, s) ==
    [v \in DictKeySet(g) \cup {s} |-> IF v = s THEN Num(0) ELSE Inf]

\* line 110
initial_predecessors(g) == [v \in DictKeySet(g) |-> None]

stop_at_unreachable(unv, dist) ==
    unv # <<>> /\ \E i \in 1..Len(unv) : ~dist[unv[i]].inf

\* line 116: while unvisited
loop_continues(unv, dist) == unv # <<>>

first_unvisited(unv, dist) == unv[1]

\* line 118: min() returns the first element whose key is smallest
min_unvisited(unv, dist) ==
    unv[CHOOSE i \in 1..Len(unv) :
            /\ \A j \in 1..Len(unv) : LessEq(dist[unv[i]], dist[unv[j]])
            /\ \A j \in 1..(i - 1) : Less(dist[unv[i]], dist[unv[j]])]

\* line 119: list.remove drops the first occurrence
list_remove(unv, x) ==
    LET i == CHOOSE j \in 1..Len(unv) : unv[j] = x /\ \A k \in 1..(j - 1) : unv[k] # x
    IN SubSeq(unv, 1, i - 1) \o SubSeq(unv, i + 1, Len(unv))

improves_or_ties(new_distance, old) == LessEq(new_distance, old)

\* line 125: new_distance < distances[neighbor]
improves(new_distance, old) == Less(new_distance, old)

\* lines 124-127 for one (neighbor, weight) item; result is <<distances, predecessors>>
relax(dist, pred, cur, item) ==
    LET neighbor == item[1]
        weight == item[2]
        new_distance == Plus(dist[cur], weight)
    IN IF improves(new_distance, dist[neighbor])
       THEN <<[dist EXCEPT ![neighbor] = new_distance],
              [pred EXCEPT ![neighbor] = cur]>>
       ELSE <<dist, pred>>

\* lines 123-127: the whole for loop over items, from position i
RECURSIVE relax_all(_, _, _, _, _)
relax_all(dist, pred, cur, items, i) ==
    IF i > Len(items) THEN <<dist, pred>>
    ELSE LET r == relax(dist, pred, cur, items[i])
         IN relax_all(r[1], r[2], cur, items, i + 1)

----------------------------------------------------------------------------
(* the __main__ block, lines 137-148 *)

MainScript == <<
    <<"A", "B", 4>>, <<"A", "C", 2>>, <<"B", "C", 1>>,
    <<"B", "D", 5>>, <<"C", "D", 8>>, <<"C", "E", 10>>,
    <<"D", "E", 2>>, <<"D", "F", 6>>, <<"E", "F", 3>> >>

MainSource == "A"

----------------------------------------------------------------------------
(* State machine *)

Init ==
    /\ vertices = <<>>
    /\ calls = 0
    /\ script \in {"api", "list", "main"}
    /\ named = {}
    /\ lastWeight = <<>>
    /\ pc = "caller"
    /\ graph_ok = TRUE
    /\ source = None
    /\ distances = <<>>
    /\ predecessors = <<>>
    /\ unvisited = <<>>
    /\ current_vertex = None
    /\ nbr_idx = 0
    /\ raised = None
    /\ visit_order = <<>>

NoteEdge(u, v, weight) ==
    /\ named' = named \cup {u, v}
    /\ lastWeight' = [p \in DOMAIN lastWeight \cup {{u, v}} |->
                         IF p = {u, v} THEN weight ELSE lastWeight[p]]

\* g.add_vertex(vertex) by a caller
AddVertex(vertex) ==
    /\ pc = "caller" /\ script = "api" /\ calls < MaxCalls
    /\ vertices' = add_vertex(vertices, vertex)
    /\ calls' = calls + 1
    /\ named' = named \cup {vertex}
    /\ UNCHANGED <<lastWeight, script, pc, callVars, loopVars>>

\* g.add_edge(u, v, weight) by a caller
AddEdge(u, v, weight) ==
    /\ pc = "caller" /\ script = "api" /\ calls < MaxCalls
    /\ vertices' = add_edge(vertices, u, v, weight)
    /\ calls' = calls + 1
    /\ NoteEdge(u, v, weight)
    /\ UNCHANGED <<script, pc, callVars, loopVars>>

\* the next g.add_edge line of __main__
MainAddEdge ==
    /\ pc = "caller" /\ script = "main" /\ calls < Len(MainScript)
    /\ LET e == MainScript[calls + 1]
       IN /\ vertices' = add_edge(vertices, e[1], e[2], e[3])
          /\ NoteEdge(e[1], e[2], e[3])
    /\ calls' = calls + 1
    /\ UNCHANGED <<script, pc, callVars, loopVars>>

\* the edges of ListEdges at the positions of S, in order, weighted by ws
RECURSIVE EdgeList(_, _, _)
EdgeList(S, ws, i) ==
    IF i > Len(ListEdges) THEN <<>>
    ELSE (IF i \in S THEN <<<<ListEdges[i][1], ListEdges[i][2], ws[i]>>>> ELSE <<>>)
         \o EdgeList(S, ws, i + 1)

\* a caller that adds a whole edge list to the empty graph
AddEdgeList(edges) ==
    /\ pc = "caller" /\ script = "list" /\ calls = 0
    /\ edges # <<>>
    /\ vertices' = add_edges(vertices, edges, 1)
    /\ calls' = Len(edges)
    /\ named' = UNION {{edges[i][1], edges[i][2]} : i \in 1..Len(edges)}
    /\ lastWeight' = [p \in {{edges[i][1], edges[i][2]} : i \in 1..Len(edges)} |->
                         LET i == CHOOSE j \in 1..Len(edges) :
                                     p = {edges[j][1], edges[j][2]}
                         IN edges[i][3]]
    /\ UNCHANGED <<script, pc, callVars, loopVars>>

BuildFromList ==
    /\ pc = "caller" /\ script = "list" /\ calls = 0
    /\ \E S \in SUBSET (1..Len(ListEdges)), ws \in [1..Len(ListEdges) -> ListWeights] :
          AddEdgeList(EdgeList(S, ws, 1))

\* dijkstra(graph, source), lines 101-112; is_graph is isinstance(graph, Graph)
Dijkstra(is_graph, s) ==
    /\ pc = "caller"
    /\ graph_ok' = is_graph
    /\ source' = s
    /\ IF ~is_graph
       THEN /\ raised' = "TypeError"
            /\ pc' = "raised"
            /\ UNCHANGED loopVars
       ELSE IF ~source_in_graph(vertices, s)
       THEN /\ raised' = "ValueError"
            /\ pc' = "raised"
            /\ UNCHANGED loopVars
       ELSE /\ distances' = initial_distances(vertices, s)
            /\ predecessors' = initial_predecessors(vertices)
            /\ unvisited' = DictKeys(vertices)
            /\ pc' = "while"
            /\ UNCHANGED <<raised, current_vertex, nbr_idx, visit_order>>
    /\ UNCHANGED <<graphVars, script>>

CallDijkstra ==
    \/ /\ script = "api"
       /\ \E is_graph \in BOOLEAN, s \in ApiVertex : Dijkstra(is_graph, s)
    \/ /\ script = "list" /\ calls > 0
       /\ \E s \in ListVertex : Dijkstra(TRUE, s)
    \/ /\ script = "main" /\ calls = Len(MainScript)
       /\ Dijkstra(TRUE, MainSource)

\* lines 116-119, and the return of line 133 when the list is empty
WhileStep ==
    /\ pc = "while"
    /\ IF loop_continues(unvisited, distances)
       THEN LET cur == min_unvisited(unvisited, distances)
            IN /\ current_vertex' = cur
               /\ unvisited' = list_remove(unvisited, cur)
               /\ visit_order' = Append(visit_order, cur)
               /\ nbr_idx' = 1
               /\ pc' = "for"
               /\ UNCHANGED <<distances, predecessors>>
       ELSE /\ pc' = "return"
            /\ UNCHANGED loopVars
    /\ UNCHANGED <<graphVars, script, callVars>>

\* lines 123-127: one item of get_neighbors(current_vertex).items()
ForStep ==
    /\ pc = "for"
    /\ LET items == get_neighbors(vertices, current_vertex)
       IN IF nbr_idx <= Len(items)
          THEN LET r == relax(distances, predecessors, current_vertex, items[nbr_idx])
               IN /\ distances' = r[1]
                  /\ predecessors' = r[2]
                  /\ nbr_idx' = nbr_idx + 1
                  /\ pc' = "for"
          ELSE /\ pc' = "while"
               /\ UNCHANGED <<distances, predecessors, nbr_idx>>
    /\ UNCHANGED <<graphVars, script, callVars, unvisited, current_vertex, visit_order>>

Next ==
    \/ \E v \in ApiVertex : AddVertex(v)
    \/ \E u \in ApiVertex, v \in ApiVertex, w \in Weights : AddEdge(u, v, w)
    \/ BuildFromList
    \/ MainAddEdge
    \/ CallDijkstra
    \/ WhileStep
    \/ ForStep

Spec == Init /\ [][Next]_vars

\* the loop is straight-line code: once called, it keeps running
FairSpec == Spec /\ WF_vars(WhileStep) /\ WF_vars(ForStep)

----------------------------------------------------------------------------
(* Views of the state used by the properties *)

SeqSet(s) == {s[i] : i \in 1..Len(s)}

Keys == DictKeySet(vertices)

\* v in get_neighbors(u)
Adj(u, v) == DictHas(get_neighbors(vertices, u), v)

\* get_neighbors(u)[v]
W(u, v) == DictGet(get_neighbors(vertices, u), v)

NonNegative == \A u \in Keys, v \in Keys : Adj(u, v) => W(u, v) >= 0

InLoop == pc \in {"while", "for"}
Returned == pc = "return"

\* the vertices connected to the source by some path
RECURSIVE Closure(_)
Closure(S) ==
    LET N == S \cup {v \in Keys : \E u \in S : Adj(u, v)}
    IN IF N = S THEN S ELSE Closure(N)

Reach == Closure({source})

\* the least element of a non-empty set of distances
MinD(S) == CHOOSE a \in S : \A b \in S : LessEq(a, b)

\* D[v] is the least cost of a path of at most k edges from the source;
\* Round(D) is the same for k + 1 edges
Round(D) ==
    [v \in Keys |->
        MinD({D[v]} \cup {Plus(D[u], W(u, v)) : u \in {x \in Keys : Adj(x, v)}})]

RECURSIVE Rounds(_, _)
Rounds(D, k) == IF k = 0 THEN D ELSE Rounds(Round(D), k - 1)

\* the least cost over all paths of at most |V| edges, which covers every
\* path without a repeated vertex
TrueDist ==
    Rounds([v \in Keys |-> IF v = source THEN Num(0) ELSE Inf], Cardinality(Keys))

TypeOK ==
    /\ pc \in {"caller", "while", "for", "return", "raised"}
    /\ raised \in {None, "TypeError", "ValueError"}
    /\ calls \in Nat

----------------------------------------------------------------------------
(* Properties of dijkstra's result *)

\* C1: with non-negative weights, the returned distance of every vertex
\* reachable from the source is the least total weight over all paths from the
\* source to it.
C1_ShortestDistances ==
    (Returned /\ NonNegative) =>
        \A v \in Reach : distances[v] = TrueDist[v]

\* a run that relaxed an already labelled vertex: some neighbour of the source
\* ends strictly closer than its direct edge, over zero-weight edges
C1_Witness ==
    /\ Returned /\ NonNegative
    /\ \E v \in Keys \ {source} :
          Adj(source, v) /\ Less(distances[v], Num(W(source, v)))

\* the total weight of the predecessor chain from v back to the source, Inf
\* when the chain leaves the graph's edges or does not reach the source
\* within fuel steps
RECURSIVE ChainCost(_, _)
ChainCost(v, fuel) ==
    IF v = source THEN Num(0)
    ELSE IF fuel = 0 \/ predecessors[v] = None \/ ~Adj(predecessors[v], v) THEN Inf
    ELSE Plus(ChainCost(predecessors[v], fuel - 1), W(predecessors[v], v))

\* C2: with non-negative weights, every reachable vertex other than the source
\* has a predecessor that is a neighbour with
\* distances[v] = distances[p] + weight(p, v), and the predecessor chain
\* reaches the source without a cycle with total weight distances[v].
C2_PredecessorTree ==
    (Returned /\ NonNegative) =>
        \A v \in Reach \ {source} :
            LET p == predecessors[v]
            IN /\ p \in Keys
               /\ Adj(p, v) /\ Adj(v, p)
               /\ distances[v] = Plus(distances[p], W(p, v))
               /\ ~distances[v].inf
               /\ ChainCost(v, Cardinality(Keys) - 1) = distances[v]

\* a chain of two edges through zero-weight ties
C2_Witness ==
    /\ Returned /\ NonNegative
    /\ \E v \in Keys : predecessors[v] \notin {None, source}
    /\ \E u \in Keys, v \in Keys : u # v /\ Adj(u, v) /\ W(u, v) = 0

SourceKept ==
    (InLoop \/ Returned) =>
        distances[source] = Num(0) /\ predecessors[source] = None

\* C3 as stated, for all graphs: the source's distance stays 0 and its
\* predecessor None in every state of the loop and in the result.
C3_Original == SourceKept

\* C3 amended: for graphs with non-negative weights, the source's distance
\* stays 0 and its predecessor None in every state of the loop and in the
\* result, also when the source has a self-loop or a zero-weight edge.
C3_SourceKept == NonNegative => SourceKept

\* the source has a self-loop and a zero-weight edge, and both were relaxed
C3_Witness ==
    /\ Returned /\ NonNegative
    /\ Adj(source, source)
    /\ \E v \in Keys \ {source} : Adj(source, v) /\ W(source, v) = 0

\* C4: for every graph, a vertex not connected to the source ends with
\* distance +infinity and predecessor None, and every vertex connected to the
\* source ends with a finite distance.
C4_Unreachable ==
    Returned =>
        \A v \in Keys :
            /\ v \notin Reach => distances[v] = Inf /\ predecessors[v] = None
            /\ v \in Reach => ~distances[v].inf

\* an unreachable vertex next to a reachable one, over a negative edge
C4_Witness ==
    /\ Returned /\ ~NonNegative
    /\ Keys \ Reach # {}
    /\ Reach # {source}

\* C5: the __main__ graph queried from "A" gives distances A=0, B=3, C=2,
\* D=8, E=10, F=13 and predecessors A=None, B=C, C=A, D=B, E=D, F=E.
C5_Example ==
    (script = "main" /\ Returned) =>
        /\ distances = [v \in {"A", "B", "C", "D", "E", "F"} |->
               Num(CASE v = "A" -> 0 [] v = "B" -> 3 [] v = "C" -> 2
                     [] v = "D" -> 8 [] v = "E" -> 10 [] v = "F" -> 13)]
        /\ predecessors = [v \in {"A", "B", "C", "D", "E", "F"} |->
               CASE v = "A" -> None [] v = "B" -> "C" [] v = "C" -> "A"
                 [] v = "D" -> "B" [] v = "E" -> "D" [] v = "F" -> "E"]

C5_Witness == script = "main" /\ Returned /\ calls = Len(MainScript) /\ source = MainSource

----------------------------------------------------------------------------
(* Failure outcomes of dijkstra *)

C6_Outcome ==
    /\ pc = "raised" =>
          /\ raised \in {"TypeError", "ValueError"}
          /\ raised = "TypeError" <=> ~graph_ok
          /\ raised = "ValueError" <=> (graph_ok /\ source \notin Keys)
          /\ distances = <<>> /\ predecessors = <<>>
          /\ unvisited = <<>> /\ visit_order = <<>>
    /\ (InLoop \/ Returned) => graph_ok /\ source \in Keys /\ raised = None
    /\ pc = "caller" => raised = None

\* a call of dijkstra leaves the graph as it is, and nothing follows a raise
C6_Step ==
    /\ pc' # "caller" => vertices' = vertices
    /\ pc # "raised"

\* C6: dijkstra raises TypeError exactly when graph is not a Graph, and
\* ValueError exactly when it is a Graph without the source (an empty graph
\* included); the error comes before any map is built, nothing is returned
\* after it, the graph is unchanged, and there is no other failure outcome.
C6_Errors == []C6_Outcome /\ [][C6_Step]_vars

\* UnknownVertex on a graph that has vertices, but not the source
C6_Witness ==
    /\ pc = "raised" /\ raised = "ValueError"
    /\ graph_ok /\ vertices # <<>> /\ source \notin Keys

----------------------------------------------------------------------------
(* The Graph against its call history *)

C7_Abstract ==
    pc = "caller" =>
    /\ Keys = named
    /\ Len(vertices) = Cardinality(named)
    /\ \A u \in Keys, v \in Keys :
          /\ Adj(u, v) <=> Adj(v, u)
          /\ Adj(u, v) <=> {u, v} \in DOMAIN lastWeight
          /\ Adj(u, v) => W(u, v) = lastWeight[{u, v}] /\ W(v, u) = lastWeight[{u, v}]
    /\ \A u \in Keys : SeqSet(DictKeys(get_neighbors(vertices, u))) \subseteq Keys

C7_AddVertexAgain ==
    \A v \in ApiVertex : (AddVertex(v) /\ DictHas(vertices, v)) => vertices' = vertices

\* C7: after any sequence of add_vertex and add_edge calls the keys are the
\* vertices named in some call, adjacency is symmetric, both directions carry
\* the weight of the latest add_edge on the pair, and add_vertex on a vertex
\* already present changes nothing.
C7_GraphOfHistory == []C7_Abstract /\ [][C7_AddVertexAgain]_vars

\* MaxCalls calls that left one edge between two vertices: all but one of
\* them were an overwrite or an add_vertex of a vertex already present
C7_Witness ==
    /\ pc = "caller" /\ script = "api" /\ calls = MaxCalls
    /\ Cardinality(named) = 2
    /\ DOMAIN lastWeight = {named}

----------------------------------------------------------------------------
(* The loop of dijkstra *)

C8_Inv ==
    /\ (InLoop \/ Returned) =>
          /\ DOMAIN distances = Keys /\ DOMAIN predecessors = Keys
          /\ Len(visit_order) + Len(unvisited) = Cardinality(Keys)
          /\ SeqSet(visit_order) \cup SeqSet(unvisited) = Keys
          /\ SeqSet(visit_order) \cap SeqSet(unvisited) = {}
          /\ Cardinality(SeqSet(visit_order)) = Len(visit_order)
    /\ Returned => Len(visit_order) = Cardinality(Keys) /\ unvisited = <<>>

C8_Step ==
    /\ (pc = "while" /\ pc' = "for") =>
          /\ Len(unvisited') = Len(unvisited) - 1
          /\ SeqSet(unvisited') = SeqSet(unvisited) \ {current_vertex'}
          /\ visit_order' = Append(visit_order, current_vertex')
    /\ (pc = "while" /\ pc' = "return") => unvisited = <<>>
    /\ pc = "for" => unvisited' = unvisited /\ visit_order' = visit_order

\* C8: for every graph and weights of any sign the loop ends after exactly
\* |V| iterations, each removing exactly one vertex from unvisited; every
\* vertex is selected exactly once, and the result maps have exactly the
\* graph's vertices as keys.
C8_Terminates ==
    /\ []C8_Inv
    /\ [][C8_Step]_vars
    /\ (InLoop ~> Returned)

\* a finished run on a disconnected graph with a negative edge
C8_Witness ==
    /\ Returned /\ ~NonNegative
    /\ Keys \ Reach # {}
    /\ Len(visit_order) = 3

\* the values of a map in the graph's key order
RECURSIVE InKeyOrder(_, _)
InKeyOrder(f, ks) ==
    IF ks = <<>> THEN <<>> ELSE <<f[Head(ks)]>> \o InKeyOrder(f, Tail(ks))

\* the results of the loop over every choice among the unvisited vertices of
\* least distance, each as <<distances, predecessors>> in key order
RECURSIVE AnyTieResults(_, _, _)
AfterVisit(unv, c, r) == AnyTieResults(unv \ {c}, r[1], r[2])

AnyTieResults(unv, dist, pred) ==
    IF unv = {}
    THEN {<<InKeyOrder(dist, DictKeys(vertices)), InKeyOrder(pred, DictKeys(vertices))>>}
    ELSE UNION {
        AfterVisit(unv, c, relax_all(dist, pred, c, get_neighbors(vertices, c), 1)) :
            c \in {x \in unv : \A y \in unv : LessEq(dist[x], dist[y])} }

AllTieResults ==
    AnyTieResults(Keys, initial_distances(vertices, source),
                  initial_predecessors(vertices))

\* the neighbours through which a shortest path can enter v
ShortestEntries(v) ==
    {u \in Keys : Adj(u, v) /\ Plus(distances[u], W(u, v)) = distances[v]}

\* C9: with non-negative weights the distances do not depend on the
\* tie-break: every choice among the unvisited vertices of least distance
\* gives the distances the code returns, and predecessors differ only at
\* vertices with several equal-cost shortest paths.
C9_TieBreak ==
    (Returned /\ NonNegative) =>
        LET ks == DictKeys(vertices)
        IN /\ <<InKeyOrder(distances, ks), InKeyOrder(predecessors, ks)>> \in AllTieResults
           /\ \A r \in AllTieResults :
                 /\ r[1] = InKeyOrder(distances, ks)
                 /\ \A i \in 1..Len(ks) :
                       r[2][i] # predecessors[ks[i]] =>
                           Cardinality(ShortestEntries(ks[i])) >= 2

\* a run whose tie-break decided a predecessor
C9_Witness ==
    /\ Returned /\ NonNegative
    /\ \E r \in AllTieResults : r[2] # InKeyOrder(predecessors, DictKeys(vertices))

C10_Step ==
    (NonNegative /\ InLoop) =>
        /\ \A v \in Keys :
              /\ v \notin SeqSet(unvisited) =>
                    distances'[v] = distances[v] /\ predecessors'[v] = predecessors[v]
              /\ LessEq(distances'[v], distances[v])
        /\ (pc = "while" /\ pc' = "for" /\ visit_order # <<>>) =>
              LessEq(distances[visit_order[Len(visit_order)]],
                     distances'[current_vertex'])

\* C10: with non-negative weights, a vertex removed from unvisited keeps its
\* distance and predecessor, the distances of the vertices at their removal
\* are non-decreasing, and no distance ever increases.
C10_Monotone == [][C10_Step]_vars

\* a finished run of three vertices, two of them at the same distance over a
\* zero-weight edge, so that a removed vertex was offered an equal distance
C10_Witness ==
    /\ Returned /\ NonNegative
    /\ Len(visit_order) = 3
    /\ \E u \in Keys, v \in Keys :
          u # v /\ Adj(u, v) /\ W(u, v) = 0 /\ distances[u] = distances[v]
    /\ \E v \in Keys : distances[v] = Num(1)

====
